---- MODULE Spec2Model ----
(***************************************************************************)
(* Model of scripts/update_translation.py: the extraction of translatable  *)
(* strings from source text (find_strings) and the reconciliation of the   *)
(* extracted keys with the JSON catalog (main).                            *)
(*                                                                         *)
(* A Python str is modelled as a sequence of one-character strings.        *)
(***************************************************************************)
EXTENDS Naturals, Sequences, FiniteSets, TLC

VARIABLES
    strings_file,   \* the catalog file on disk (args.strings_path)
    patterns,       \* the JS_SRC_FILE arguments as given on the command line
    auto_add,       \* args.auto_add
    auto_remove,    \* args.auto_remove
    pc,             \* position in main / find_strings
    run,            \* 1 for the first invocation, 2 for the repeated one
    src_paths,      \* args.src_paths after glob expansion
    idx,            \* position of find_strings' loop over src_paths
    ref,            \* the loaded catalog (dict key -> value)
    existing,       \* normalized catalog keys
    found,          \* extracted keys
    added,          \* found - existing
    removed,        \* existing - found
    out,            \* lines printed to stdout, in order
    result,         \* "none", "ret0", "ret1" or "raise"
    exc,            \* the exception that left main, "" if none
    nwrites,        \* number of times this run opened the catalog for writing
    file0,          \* history: the catalog file when the run started
    ref0,           \* history: the catalog as loaded by this run
    prev,           \* history: result of the first invocation
    call            \* history: how the single source file of SpecExtract was built

vars == <<strings_file, patterns, auto_add, auto_remove, pc, run, src_paths, idx,
          ref, existing, found, added, removed, out, result, exc, nwrites,
          file0, ref0, prev, call>>

-----------------------------------------------------------------------------
(* Characters *)

SQ == "'"
DQ == "\""
BT == "backtick"
BS == "\\"
NL == "\n"
SP == " "

\* The quote characters of both regular expressions: ["\'`]
Quotes == {DQ, SQ, BT}

\* \s of Python's re, on the whitespace the modelled texts contain
IsWs(c) == c \in {SP, NL}

plural_separator == "|"

-----------------------------------------------------------------------------
(* find_strings: the two regular expressions *)

RECURSIVE SkipWs(_, _)
\* \s* (greedy) from position i: the first position that holds no whitespace
SkipWs(s, i) ==
    IF i <= Len(s) /\ IsWs(s[i]) THEN SkipWs(s, i + 1) ELSE i

At(s, i) == IF i >= 1 /\ i <= Len(s) THEN s[i] ELSE "EOF"

\* mutant of ConcatMatchEnd: no whitespace allowed around the '+'
ConcatMatchEnd_NoWs(s, i) ==
    IF At(s, i) \in Quotes /\ At(s, i + 1) = "+" /\ At(s, i + 2) = s[i]
    THEN i + 3 ELSE 0

\* concatexpr = (["\'`])\s*[+]\s*\1 tried at position i: the position after the
\* match, 0 if there is none
ConcatMatchEnd(s, i) ==
    IF At(s, i) \in Quotes
    THEN LET j == SkipWs(s, i + 1)
             k == SkipWs(s, j + 1)
         IN  IF At(s, j) = "+" /\ At(s, k) = s[i] THEN k + 1 ELSE 0
    ELSE 0

RECURSIVE ConcatSub(_, _)
\* concatexpr.sub('', s) from position i: leftmost non-overlapping matches deleted
ConcatSub(s, i) ==
    IF i > Len(s) THEN << >>
    ELSE LET e == ConcatMatchEnd(s, i)
         IN  IF e # 0 THEN ConcatSub(s, e)
             ELSE <<s[i]>> \o ConcatSub(s, i + 1)

\* \s*[,)] from position i: the position after it, 0 if it does not match
TermEnd(s, i) ==
    LET e == SkipWs(s, i)
    IN  IF At(s, e) \in {",", ")"} THEN e + 1 ELSE 0

RECURSIVE LazyClose(_, _, _)
\* (.*?)\1\s*[,)] with the literal opened by q: the position of the first quote q
\* at or after c that is followed by \s*[,)], 0 if there is none; '.' matches
\* everything but a newline
LazyClose(s, q, c) ==
    IF c > Len(s) THEN 0
    ELSE IF s[c] = q /\ TermEnd(s, c + 1) # 0 THEN c
    ELSE IF s[c] = NL THEN 0
    ELSE LazyClose(s, q, c + 1)

NoMatch == [end |-> 0, text |-> << >>]

\* \s*\(\s*(["\'`])(.*?)\1\s*[,)] from position p (after the function name)
ArgMatch(s, p) ==
    LET j == SkipWs(s, p)
        k == SkipWs(s, j + 1)
    IN  IF At(s, j) = "(" /\ At(s, k) \in Quotes
        THEN LET c == LazyClose(s, s[k], k + 1)
             IN  IF c = 0 THEN NoMatch
                 ELSE [end |-> TermEnd(s, c + 1), text |-> SubSeq(s, k + 1, c - 1)]
        ELSE NoMatch

\* _t(?:d|Jsx)? at position i: the positions after the name, in the order the
\* regular expression tries them (d, Jsx, nothing)
NameEnds(s, i) ==
    IF At(s, i) = "_" /\ At(s, i + 1) = "t"
    THEN (IF At(s, i + 2) = "d" THEN <<i + 3>> ELSE << >>)
         \o (IF At(s, i + 2) = "J" /\ At(s, i + 3) = "s" /\ At(s, i + 4) = "x"
             THEN <<i + 5>> ELSE << >>)
         \o <<i + 2>>
    ELSE << >>

RECURSIVE FirstMatch(_, _)
FirstMatch(s, ends) ==
    IF ends = << >> THEN NoMatch
    ELSE LET m == ArgMatch(s, Head(ends))
         IN  IF m.end # 0 THEN m ELSE FirstMatch(s, Tail(ends))

\* texpr tried at position i
TexprMatch(s, i) == FirstMatch(s, NameEnds(s, i))

RECURSIVE Replace(_, _)
\* str.replace of the two characters <backslash, q> by q
Replace(s, q) ==
    IF Len(s) < 2 THEN s
    ELSE IF s[1] = BS /\ s[2] = q THEN <<q>> \o Replace(SubSeq(s, 3, Len(s)), q)
    ELSE <<s[1]>> \o Replace(Tail(s), q)

\* match[1].replace(r"\'", "'").replace(r'\"', '"')
Unescape(s) == Replace(Replace(s, SQ), DQ)

RECURSIVE FindAll(_, _)
\* the keys of texpr.findall(s), scanning from position i
FindAll(s, i) ==
    IF i > Len(s) THEN {}
    ELSE LET m == TexprMatch(s, i)
         IN  IF m.end # 0 THEN {Unescape(m.text)} \cup FindAll(s, m.end)
             ELSE FindAll(s, i + 1)

\* the keys one source file contributes
FileStrings(content) == FindAll(ConcatSub(content, 1), 1)

-----------------------------------------------------------------------------
(* main: pure helpers *)

RECURSIVE Base(_)
\* x.split(plural_separator, 1)[0]: the text before the first separator
Base(k) ==
    IF k = << >> \/ Head(k) = plural_separator THEN << >>
    ELSE <<Head(k)>> \o Base(Tail(k))

\* str.startswith
StartsWith(k, p) == Len(k) >= Len(p) /\ SubSeq(k, 1, Len(p)) = p

EmptyDict == [k \in {} |-> << >>]

RECURSIVE JsonLoad(_)
\* json.load of an object given as its <<key, value>> members in file order: a
\* repeated key keeps its last value
JsonLoad(pairs) ==
    IF pairs = << >> THEN EmptyDict
    ELSE LET n    == Len(pairs)
             rest == JsonLoad(SubSeq(pairs, 1, n - 1))
             last == pairs[n]
         IN  [k \in DOMAIN rest \cup {last[1]} |->
                 IF k = last[1] THEN last[2] ELSE rest[k]]

\* code points of the characters that occur in keys
Ord(c) ==
    CASE c = SP -> 32 [] c = DQ -> 34 [] c = SQ -> 39 [] c = "+" -> 43
      [] c = BS -> 92 [] c = "a" -> 97 [] c = "b" -> 98 [] c = "x" -> 120
      [] c = "y" -> 121 [] c = "|" -> 124 [] OTHER -> 0

RECURSIVE StrLess(_, _)
\* Python's < on str: lexicographic on code points, a proper prefix is smaller
StrLess(a, b) ==
    IF b = << >> THEN FALSE
    ELSE IF a = << >> THEN TRUE
    ELSE IF Head(a) # Head(b) THEN Ord(Head(a)) < Ord(Head(b))
    ELSE StrLess(Tail(a), Tail(b))

RECURSIVE SortedKeys(_)
\* sorted(keys)
SortedKeys(S) ==
    IF S = {} THEN << >>
    ELSE LET m == CHOOSE k \in S : \A o \in S \ {k} : StrLess(k, o)
         IN  <<m>> \o SortedKeys(S \ {m})

\* mutant of JsonDump: sort_keys left out, members written in another order
JsonDump_Unsorted(d) ==
    LET ks == SortedKeys(DOMAIN d)
        n  == Len(ks)
    IN  [i \in 1..n |-> <<ks[n + 1 - i], d[ks[n + 1 - i]]>>]

\* json.dump(ref, json_file, indent=4, sort_keys=True): the members of the
\* written object, in file order
JsonDump(d) ==
    LET ks == SortedKeys(DOMAIN d)
    IN  [i \in 1..Len(ks) |-> <<ks[i], d[ks[i]]>>]

\* set(x.split(plural_separator, 1)[0] for x in ref.keys())
Existing(d) == {Base(k) : k \in DOMAIN d}

\* mutant of AfterAdd: an empty translation is stored
AfterAdd_Empty(d, add) ==
    [k \in DOMAIN d \cup add |-> IF k \in add THEN << >> ELSE d[k]]

\* for string in added: ref[string] = string
AfterAdd(d, add) ==
    [k \in DOMAIN d \cup add |-> IF k \in add THEN k ELSE d[k]]

\* mutant of KeyMatches: only the exact key is removed
KeyMatches_Exact(key, string) == key = string

\* key == string or key.startswith(string + plural_separator)
KeyMatches(key, string) ==
    key = string \/ StartsWith(key, string \o <<plural_separator>>)

\* mutant of AfterRemove: the deletions are lost
AfterRemove_Noop(d, rem) == d

\* for string in removed: for key in list(ref): if ...: del ref[key]
AfterRemove(d, rem) ==
    [k \in {x \in DOMAIN d : \A string \in rem : ~KeyMatches(x, string)} |-> d[k]]

\* mutant of AddedOf: the catalog keys are not subtracted
AddedOf_All(f, e) == f

\* added = found - existing
AddedOf(f, e) == f \ e

\* removed = existing - found
RemovedOf(f, e) == e \ f

\* mutant of ShouldWrite: the file is rewritten in every mode
ShouldWrite_Always(add, remove) == TRUE

\* if args.auto_remove or args.auto_add:
ShouldWrite(add, remove) == remove \/ add

\* if found == existing:
NothingToDo(f, e) == f = e

\* the orders in which a set can be iterated
Orderings(S) ==
    {o \in [1..Cardinality(S) -> S] : \A k \in S : \E i \in DOMAIN o : o[i] = k}

\* one printed line of fixed text
Line(text) == <<text>>

\* print(header); print(underline); print('\n'.join(keys)), for non-empty keys
Report(header, underline, order) ==
    IF order = << >> THEN << >>
    ELSE <<Line(header), Line(underline)>> \o order

\* the attributes argparse sets on the namespace (dest of each add_argument)
NamespaceAttrs == {"strings_path", "src_paths", "auto_add", "auto_remove"}

\* the attribute the except clause of main reads
HandlerAttr == "string_path"

\* except (AttributeError, json.JSONDecodeError, IOError)
Caught == {"AttributeError", "JSONDecodeError", "IOError"}

\* what opening and loading the catalog raises, "" if nothing
LoadError(file) ==
    CASE file.kind = "missing"   -> "IOError"
      [] file.kind = "invalid"   -> "JSONDecodeError"
      [] file.kind = "nonobject" -> "AttributeError"
      [] OTHER                   -> ""

\* mutant of CanOpen: a file that cannot be opened is skipped
CanOpen_Skip(f) == TRUE

\* open(path, encoding='utf-8') and read() succeed
CanOpen(f) == f.kind = "file"

\* glob.glob(pattern, recursive=True) chained over the patterns: a pattern that
\* names no existing file expands to nothing
Glob(ps) == SelectSeq(ps, LAMBDA p : p.kind # "nomatch")

-----------------------------------------------------------------------------
(* Bounds and inputs *)

MaxCat == 3     \* members of the catalog file at the start
MaxSrc == 2     \* JS_SRC_FILE arguments
MaxFrag == 2    \* characters of a literal in SpecExtract

Key_a  == <<"a">>
Key_b  == <<"b">>
Key_ax == <<"a", "|", "x">>
Key_ay == <<"a", "|", "y">>

CatalogKeys == {Key_a, Key_b, Key_ax, Key_ay}

\* the value of every member of the catalog at the start
Translated == <<"T">>

\* source files: _t('a')   _td("b")   _tJsx(`a|x`)
Src_a  == <<"_", "t", "(", SQ, "a", SQ, ")">>
Src_b  == <<"_", "t", "d", "(", DQ, "b", DQ, ")">>
Src_ax == <<"_", "t", "J", "s", "x", "(", BT, "a", "|", "x", BT, ")">>

SrcFile(content) == [kind |-> "file", content |-> content]

PatternChoices ==
    {[kind |-> "nomatch", content |-> << >>],
     [kind |-> "unreadable", content |-> << >>],
     SrcFile(Src_a), SrcFile(Src_b), SrcFile(Src_ax)}

SeqsUpTo(S, lo, hi) == UNION {[1..n -> S] : n \in lo..hi}

Injective(q) == \A i, j \in DOMAIN q : q[i] = q[j] => i = j

CatalogFiles ==
    {[kind |-> k, pairs |-> << >>] : k \in {"missing", "invalid", "nonobject"}}
    \cup {[kind |-> "object", pairs |-> [i \in DOMAIN ks |-> <<ks[i], Translated>>]] :
             ks \in {q \in SeqsUpTo(CatalogKeys, 0, MaxCat) : Injective(q)}}

NoCall == [name |-> << >>, q1 |-> "", f1 |-> << >>, sep |-> << >>,
           q2 |-> "", f2 |-> << >>, term |-> ""]

CallNames == {<<"_", "t">>, <<"_", "t", "d">>, <<"_", "t", "J", "s", "x">>}

FragChars == {"a", "+", SP}

\* what stands between the two literals: '+' with optional whitespace
Joins == {<<"+">>, <<SP, "+", SP>>, <<NL, "+", SP>>, <<SP, "+", NL, SP>>}

Calls ==
    [name : CallNames, q1 : Quotes, f1 : SeqsUpTo(FragChars, 1, MaxFrag),
     sep : Joins, q2 : Quotes, f2 : SeqsUpTo(FragChars, 1, MaxFrag),
     term : {",", ")"}]

\* the source text  name(q1 f1 q1 sep q2 f2 q2 term
CallText(c) ==
    c.name \o <<"(", c.q1>> \o c.f1 \o <<c.q1>> \o c.sep
           \o <<c.q2>> \o c.f2 \o <<c.q2, c.term>>

-----------------------------------------------------------------------------
(* The program *)

Init ==
    /\ strings_file \in CatalogFiles
    /\ patterns \in SeqsUpTo(PatternChoices, 1, MaxSrc)
    /\ auto_add \in BOOLEAN
    /\ auto_remove \in BOOLEAN
    /\ pc = "parse"
    /\ run = 1
    /\ src_paths = << >>
    /\ idx = 1
    /\ ref = EmptyDict
    /\ existing = {}
    /\ found = {}
    /\ added = {}
    /\ removed = {}
    /\ out = << >>
    /\ result = "none"
    /\ exc = ""
    /\ nwrites = 0
    /\ file0 = strings_file
    /\ ref0 = EmptyDict
    /\ prev = "none"
    /\ call = NoCall

\* parse_args: the globs of the source arguments are expanded
ParseArgs ==
    /\ pc = "parse"
    /\ src_paths' = Glob(patterns)
    /\ pc' = "load"
    /\ UNCHANGED <<strings_file, patterns, auto_add, auto_remove, run, idx, ref,
                   existing, found, added, removed, out, result, exc, nwrites,
                   file0, ref0, prev, call>>

\* main, the try block: the catalog is opened and loaded, its keys normalized
LoadCatalog ==
    /\ pc = "load"
    /\ LoadError(strings_file) = ""
    /\ ref' = JsonLoad(strings_file.pairs)
    /\ ref0' = ref'
    /\ existing' = Existing(ref')
    /\ found' = {}
    /\ idx' = 1
    /\ pc' = "find"
    /\ UNCHANGED <<strings_file, patterns, auto_add, auto_remove, run, src_paths,
                   added, removed, out, result, exc, nwrites, file0, prev, call>>

\* main, the except clause: it formats args.string_path into the message
LoadCatalogError ==
    /\ pc = "load"
    /\ LoadError(strings_file) # ""
    /\ IF LoadError(strings_file) \notin Caught
       THEN /\ result' = "raise"
            /\ exc' = LoadError(strings_file)
            /\ out' = out
       ELSE IF HandlerAttr \in NamespaceAttrs
       THEN /\ result' = "ret1"
            /\ exc' = exc
            /\ out' = Append(out, Line("Error opening file <strings_path>"))
       ELSE /\ result' = "raise"
            /\ exc' = "AttributeError"
            /\ out' = out
    /\ pc' = "done"
    /\ UNCHANGED <<strings_file, patterns, auto_add, auto_remove, run, src_paths,
                   idx, ref, existing, found, added, removed, nwrites, file0,
                   ref0, prev, call>>

\* find_strings, one turn of the loop: the file is read and its strings added
ReadSource ==
    /\ pc = "find"
    /\ idx <= Len(src_paths)
    /\ CanOpen(src_paths[idx])
    /\ found' = found \cup FileStrings(src_paths[idx].content)
    /\ idx' = idx + 1
    /\ UNCHANGED <<strings_file, patterns, auto_add, auto_remove, pc, run,
                   src_paths, ref, existing, added, removed, out, result, exc,
                   nwrites, file0, ref0, prev, call>>

\* find_strings, one turn of the loop: open() or read() raises, nothing catches it
ReadSourceError ==
    /\ pc = "find"
    /\ idx <= Len(src_paths)
    /\ ~CanOpen(src_paths[idx])
    /\ result' = "raise"
    /\ exc' = "IOError"
    /\ pc' = "done"
    /\ UNCHANGED <<strings_file, patterns, auto_add, auto_remove, run, src_paths,
                   idx, ref, existing, found, added, removed, out, nwrites,
                   file0, ref0, prev, call>>

\* find_strings returns found
FindStringsReturn ==
    /\ pc = "find"
    /\ idx > Len(src_paths)
    /\ pc' = "compare"
    /\ UNCHANGED <<strings_file, patterns, auto_add, auto_remove, run, src_paths,
                   idx, ref, existing, found, added, removed, out, result, exc,
                   nwrites, file0, ref0, prev, call>>

\* main: found == existing, return 0
ReturnNoDiff ==
    /\ pc = "compare"
    /\ NothingToDo(found, existing)
    /\ result' = "ret0"
    /\ pc' = "done"
    /\ UNCHANGED <<strings_file, patterns, auto_add, auto_remove, run, src_paths,
                   idx, ref, existing, found, added, removed, out, exc, nwrites,
                   file0, ref0, prev, call>>

\* main: added = found - existing and its report
ReportAdded ==
    /\ pc = "compare"
    /\ ~NothingToDo(found, existing)
    /\ added' = AddedOf(found, existing)
    /\ \E order \in Orderings(added') :
          out' = out \o Report("Add:", "----", order)
    /\ pc' = "auto_add"
    /\ UNCHANGED <<strings_file, patterns, auto_add, auto_remove, run, src_paths,
                   idx, ref, existing, found, removed, result, exc, nwrites,
                   file0, ref0, prev, call>>

\* main: if args.auto_add, every added string is stored with itself as value
AutoAdd ==
    /\ pc = "auto_add"
    /\ ref' = IF auto_add THEN AfterAdd(ref, added) ELSE ref
    /\ pc' = "report_removed"
    /\ UNCHANGED <<strings_file, patterns, auto_add, auto_remove, run, src_paths,
                   idx, existing, found, added, removed, out, result, exc,
                   nwrites, file0, ref0, prev, call>>

\* main: print(), removed = existing - found and its report
ReportRemoved ==
    /\ pc = "report_removed"
    /\ removed' = RemovedOf(found, existing)
    /\ \E order \in Orderings(removed') :
          out' = out \o << << >> >> \o Report("Removed:", "--------", order)
    /\ pc' = "auto_remove"
    /\ UNCHANGED <<strings_file, patterns, auto_add, auto_remove, run, src_paths,
                   idx, ref, existing, found, added, result, exc, nwrites,
                   file0, ref0, prev, call>>

\* main: if args.auto_remove, the removed strings and their plurals are deleted
AutoRemove ==
    /\ pc = "auto_remove"
    /\ ref' = IF auto_remove THEN AfterRemove(ref, removed) ELSE ref
    /\ pc' = "persist"
    /\ UNCHANGED <<strings_file, patterns, auto_add, auto_remove, run, src_paths,
                   idx, existing, found, added, removed, out, result, exc,
                   nwrites, file0, ref0, prev, call>>

\* main: the catalog file is rewritten, return 0
Persist ==
    /\ pc = "persist"
    /\ ShouldWrite(auto_add, auto_remove)
    /\ strings_file' = [kind |-> "object", pairs |-> JsonDump(ref)]
    /\ nwrites' = nwrites + 1
    /\ out' = out \o << << >>, Line("Updated <strings_path>") >>
    /\ result' = "ret0"
    /\ pc' = "done"
    /\ UNCHANGED <<patterns, auto_add, auto_remove, run, src_paths, idx, ref,
                   existing, found, added, removed, exc, file0, ref0, prev, call>>

\* main: no flag is set, return 1
ReturnChangesNeeded ==
    /\ pc = "persist"
    /\ ~ShouldWrite(auto_add, auto_remove)
    /\ result' = "ret1"
    /\ pc' = "done"
    /\ UNCHANGED <<strings_file, patterns, auto_add, auto_remove, run, src_paths,
                   idx, ref, existing, found, added, removed, out, exc, nwrites,
                   file0, ref0, prev, call>>

\* the tool is invoked again with the same arguments on the same files
Rerun ==
    /\ pc = "done"
    /\ run = 1
    /\ run' = 2
    /\ prev' = result
    /\ pc' = "parse"
    /\ src_paths' = << >>
    /\ idx' = 1
    /\ ref' = EmptyDict
    /\ ref0' = EmptyDict
    /\ existing' = {}
    /\ found' = {}
    /\ added' = {}
    /\ removed' = {}
    /\ out' = << >>
    /\ result' = "none"
    /\ exc' = ""
    /\ nwrites' = 0
    /\ file0' = strings_file
    /\ UNCHANGED <<strings_file, patterns, auto_add, auto_remove, call>>

Next ==
    \/ ParseArgs
    \/ LoadCatalog
    \/ LoadCatalogError
    \/ ReadSource
    \/ ReadSourceError
    \/ FindStringsReturn
    \/ ReturnNoDiff
    \/ ReportAdded
    \/ AutoAdd
    \/ ReportRemoved
    \/ AutoRemove
    \/ Persist
    \/ ReturnChangesNeeded
    \/ Rerun

Spec == Init /\ [][Next]_vars

(* find_strings alone, on one source file that holds one call whose first *)
(* argument is two literals joined by '+'                                 *)

InitExtract ==
    /\ call \in Calls
    /\ src_paths = <<SrcFile(CallText(call))>>
    /\ patterns = src_paths
    /\ strings_file = [kind |-> "object", pairs |-> << >>]
    /\ auto_add = FALSE
    /\ auto_remove = FALSE
    /\ pc = "find"
    /\ run = 1
    /\ idx = 1
    /\ ref = EmptyDict
    /\ existing = {}
    /\ found = {}
    /\ added = {}
    /\ removed = {}
    /\ out = << >>
    /\ result = "none"
    /\ exc = ""
    /\ nwrites = 0
    /\ file0 = strings_file
    /\ ref0 = EmptyDict
    /\ prev = "none"

NextExtract ==
    \/ ReadSource
    \/ FindStringsReturn

SpecExtract == InitExtract /\ [][NextExtract]_vars

-----------------------------------------------------------------------------
(* Properties *)

Done == pc = "done"

\* this run opened and loaded the catalog
Loaded == LoadError(file0) = ""

\* this run hit a source file it could not read
SourceFailed == \E i \in DOMAIN src_paths : src_paths[i].kind = "unreadable"

AnyFlag == auto_add \/ auto_remove

HasSep(k) == \E i \in DOMAIN k : k[i] = "|"

\* the catalog as a later load of the file on disk sees it
OnDisk == JsonLoad(strings_file.pairs)

KeysAscending(pairs) ==
    \A i, j \in DOMAIN pairs : i < j => StrLess(pairs[i][1], pairs[j][1])

\* the lines of a full report of the two difference sets
IsReport(lines, add, rem) ==
    \E oa \in Orderings(add) : \E or \in Orderings(rem) :
        lines = Report("Add:", "----", oa) \o << << >> >>
                \o Report("Removed:", "--------", or)

\* a literal that is nothing but a '+' with optional whitespace around it
LonePlus(f) ==
    LET j == SkipWs(f, 1)
    IN  At(f, j) = "+" /\ SkipWs(f, j + 1) = Len(f) + 1

\* C1 as stated: after a run with --auto-add and --auto-remove that returned, a
\* second run with the same flags and sources finds no diff: found = existing,
\* it returns 0 and prints nothing.
C1_Idempotent ==
    (Done /\ run = 2 /\ auto_add /\ auto_remove /\ prev = "ret0")
        => (result = "ret0" /\ found = existing /\ out = << >>)

\* C1 amended: the second run finds no diff provided no extracted key contains
\* the plural separator '|'.
C1_IdempotentBaseForms ==
    (Done /\ run = 2 /\ auto_add /\ auto_remove /\ prev = "ret0"
          /\ \A k \in found : ~HasSep(k))
        => (result = "ret0" /\ found = existing /\ out = << >> /\ nwrites = 0)

\* C1 witness: a second run over a catalog the first run both added to and
\* removed from.
C1_Witness ==
    /\ Done /\ run = 2 /\ auto_add /\ auto_remove /\ prev = "ret0"
    /\ result = "ret0"
    /\ found # {} /\ \A k \in found : ~HasSep(k)
    /\ \E k \in DOMAIN ref : ref[k] = k
    /\ \E k \in DOMAIN ref : ref[k] = Translated

C3_ReportOnly ==
    (~auto_add /\ ~auto_remove)
        => /\ strings_file = file0
           /\ nwrites = 0
           /\ (Done /\ Loaded /\ ~SourceFailed /\ found # existing)
                 => /\ result = "ret1"
                    /\ IsReport(out, found \ existing, existing \ found)

\* C3 witness: a report-only run that found a missing key.
C3_Witness ==
    /\ Done /\ ~auto_add /\ ~auto_remove /\ Loaded
    /\ result = "ret1"
    /\ found \ existing # {}
    /\ strings_file = file0

\* C4 as stated: a catalog that is missing, not JSON, not an object or an object
\* with no keys makes main print a diagnostic and return 1; no source file is
\* read and the catalog is not written.
C4_CatalogError ==
    (Done /\ (LoadError(file0) # ""
              \/ (file0.kind = "object" /\ file0.pairs = << >>)))
        => /\ result = "ret1"
           /\ out = <<Line("Error opening file <strings_path>")>>
           /\ idx = 1 /\ found = {} /\ exc = ""
           /\ nwrites = 0 /\ strings_file = file0

\* C5 as stated: with --auto-add, after the add step every added key was absent
\* from the catalog and maps to itself, and every entry the catalog had keeps
\* its value.
C5_NoOverwrite ==
    (pc = "report_removed" /\ auto_add)
        => /\ \A k \in added : k \notin DOMAIN ref0 /\ k \in DOMAIN ref /\ ref[k] = k
           /\ \A k \in DOMAIN ref0 : k \in DOMAIN ref /\ ref[k] = ref0[k]

\* C5 amended: every added key is absent from the normalized catalog keys, and
\* absent from the catalog itself unless it contains '|'; after the add step
\* each added key maps to itself and every entry whose key is not an added key
\* keeps its value.
C5_NoOverwriteOfBaseForms ==
    (pc = "report_removed" /\ auto_add)
        => /\ \A k \in added :
                 /\ k \notin {Base(x) : x \in DOMAIN ref0}
                 /\ ~HasSep(k) => k \notin DOMAIN ref0
                 /\ k \in DOMAIN ref /\ ref[k] = k
           /\ \A k \in DOMAIN ref0 \ added : k \in DOMAIN ref /\ ref[k] = ref0[k]

\* C5 witness: keys without '|' were added to a catalog that had entries, one of
\* them with a base form the sources use.
C5_Witness ==
    /\ pc = "report_removed" /\ auto_add
    /\ \E k \in added : ~HasSep(k)
    /\ \E k \in DOMAIN ref0 : Base(k) \in found

\* C6 as stated: a run with --auto-add that finds a diff persists every added
\* key with itself as value.
C6_AddedPersisted ==
    (Done /\ Loaded /\ auto_add /\ result = "ret0" /\ found # existing)
        => \A k \in found \ existing : k \in DOMAIN OnDisk /\ OnDisk[k] = k

\* C6 amended: every added key is persisted with itself as value, except that
\* with --auto-remove also set an added key whose base form is in removed (it
\* then contains '|') is deleted again and is not persisted.
C6_AddedPersistedUnlessRemoved ==
    (Done /\ Loaded /\ auto_add /\ result = "ret0" /\ found # existing)
        => \A k \in found \ existing :
              IF auto_remove /\ Base(k) \in existing \ found
              THEN HasSep(k) /\ k \notin DOMAIN OnDisk
              ELSE k \in DOMAIN OnDisk /\ OnDisk[k] = k

\* C6 witness: a run with --auto-add only wrote a catalog that holds an added
\* key beside an old entry.
C6_Witness ==
    /\ Done /\ Loaded /\ auto_add /\ ~auto_remove /\ result = "ret0"
    /\ nwrites = 1
    /\ found \ existing # {}
    /\ \E k \in DOMAIN OnDisk : OnDisk[k] = Translated

\* C7 as stated: with --auto-remove, the persisted catalog holds no key equal to
\* a removed key or starting with it and '|'; every stored key whose base form
\* was extracted is kept with its value, and no diff is reported for it.
C7_PluralRemoval ==
    (Done /\ Loaded /\ auto_remove /\ result = "ret0" /\ found # existing)
        => /\ \A k \in existing \ found : \A key \in DOMAIN OnDisk :
                 key # k /\ ~StartsWith(key, k \o <<"|">>)
           /\ \A key \in DOMAIN ref0 : Base(key) \in found
                 => /\ key \in DOMAIN OnDisk /\ OnDisk[key] = ref0[key]
                    /\ Base(key) \notin added \cup removed

\* C7 amended: as stated, except that with --auto-add also set a kept key that
\* is itself an added key (an extracted key containing '|') has its value
\* replaced by the key.
C7_PluralRemovalValueKeptUnlessAdded ==
    (Done /\ Loaded /\ auto_remove /\ result = "ret0" /\ found # existing)
        => /\ \A k \in existing \ found : \A key \in DOMAIN OnDisk :
                 key # k /\ ~StartsWith(key, k \o <<"|">>)
           /\ \A key \in DOMAIN ref0 : Base(key) \in found
                 => /\ key \in DOMAIN OnDisk
                    /\ OnDisk[key] = IF auto_add /\ key \in found \ existing
                                     THEN key ELSE ref0[key]
                    /\ Base(key) \notin added \cup removed

\* C7 witness: two plural variants of a removed base key were deleted together
\* while an entry the sources use was kept with its value.
C7_Witness ==
    /\ Done /\ Loaded /\ auto_remove /\ result = "ret0" /\ nwrites = 1
    /\ {Key_ax, Key_ay, Key_b} \subseteq DOMAIN ref0
    /\ Key_a \in removed /\ Key_b \in found
    /\ DOMAIN OnDisk \cap {Key_a, Key_ax, Key_ay} = {}
    /\ Key_b \in DOMAIN OnDisk /\ OnDisk[Key_b] = Translated

\* C8 as stated: every run that loads the catalog with a flag set and returns
\* has rewritten the catalog file with sorted keys, diff or no diff.
C8_AlwaysRewritten ==
    (Done /\ Loaded /\ AnyFlag /\ result \in {"ret0", "ret1"})
        => /\ nwrites = 1
           /\ KeysAscending(strings_file.pairs)
           /\ OnDisk = ref

\* C8 amended: such a run rewrites the file (keys sorted, holding the catalog
\* in memory) exactly when a diff was found, also when the set flag's own
\* difference set is empty; with no diff it returns 0 and leaves the file.
C8_RewrittenOnDiff ==
    (Done /\ Loaded /\ AnyFlag /\ result \in {"ret0", "ret1"})
        => /\ result = "ret0"
           /\ IF found # existing
              THEN /\ nwrites = 1
                   /\ KeysAscending(strings_file.pairs)
                   /\ Len(strings_file.pairs) = Cardinality(DOMAIN ref)
                   /\ OnDisk = ref
              ELSE nwrites = 0 /\ strings_file = file0

\* C8 witness: only --auto-remove is set, nothing is to be removed, and the
\* unsorted file was still rewritten.
C8_Witness ==
    /\ Done /\ Loaded /\ auto_remove /\ ~auto_add /\ result = "ret0"
    /\ removed = {} /\ added # {}
    /\ nwrites = 1
    /\ ~KeysAscending(file0.pairs)
    /\ Len(strings_file.pairs) >= 2

\* C9: when a source file cannot be read the error leaves main, whatever the
\* flags and the position of the file: nothing is reported, no diff is
\* computed and the catalog file is not written.
C9_SourceReadFatal ==
    (Done /\ Loaded /\ SourceFailed)
        => /\ result = "raise" /\ exc = "IOError"
           /\ out = << >>
           /\ added = {} /\ removed = {}
           /\ nwrites = 0 /\ strings_file = file0

\* C9 witness: the second file fails after the first one contributed a key the
\* catalog lacks, with both flags set.
C9_Witness ==
    /\ Done /\ exc = "IOError" /\ auto_add /\ auto_remove
    /\ idx = 2
    /\ found \ existing # {}

\* C10 as stated: a call whose first argument is two literals with the same
\* quote character joined by '+' yields exactly the merged literal; with
\* different quote characters the literals are not merged.
C10_ConcatMerged ==
    (pc = "compare" /\ call # NoCall)
        => IF call.q1 = call.q2
           THEN found = {call.f1 \o call.f2}
           ELSE (call.f1 \o call.f2) \notin found

\* C10 amended: the merged literal is the one key provided the first literal is
\* not a lone '+' (with optional whitespace); such a literal is itself deleted
\* by the pre-pass and the call yields no key.
C10_ConcatMergedUnlessLonePlus ==
    (pc = "compare" /\ call # NoCall)
        => IF call.q1 # call.q2 THEN (call.f1 \o call.f2) \notin found
           ELSE IF LonePlus(call.f1) THEN found = {}
           ELSE found = {call.f1 \o call.f2}

\* C10 witness: a _tJsx call whose literals are joined across a line break was
\* merged into one key.
C10_Witness ==
    /\ pc = "compare"
    /\ call.name = <<"_", "t", "J", "s", "x">>
    /\ call.q1 = call.q2
    /\ \E i \in DOMAIN call.sep : call.sep[i] = NL
    /\ call.f1 = <<"a">> /\ call.f2 = <<"a", "a">>
    /\ found = {<<"a", "a", "a">>}

====
